---- MODULE Spec2Model ----
(***************************************************************************)
(* Bridge factory of macos_ui_automation (bridges/factory.py): the three   *)
(* module-level singleton slots, the factory functions, the three lazy     *)
(* accessors, reset_bridges and set_bridge_instances.                      *)
(*                                                                         *)
(* A bridge object is a record [cls, id]: cls is the name of its class and *)
(* id its identity (Python's `is`), numbered in order of construction.     *)
(* One action is one complete call of one function of the module.  The     *)
(* variables op .. injected record what the last call was given, did and   *)
(* returned, so that the callers' view can be stated over states.          *)
(*                                                                         *)
(* SpecThreads runs the accessors and reset_bridges() in two threads, one  *)
(* global read or write per step.  SpecModels follows one instance of the  *)
(* data model (models/types.py) from construction through model_dump() to  *)
(* reconstruction.  SpecWrapper is one run of main() of                    *)
(* mcp_server_wrapper.py.                                                  *)
(***************************************************************************)
EXTENDS Integers, Sequences, FiniteSets

VARIABLES
    _pyobjc_bridge,       \* factory.py:20
    _workspace_bridge,    \* factory.py:21
    _application_bridge,  \* factory.py:22
    test_mode,            \* what is_test_mode() answers (core.registry)
    objects,              \* every bridge object constructed so far
    op,                   \* the function called last
    args,                 \* its arguments
    result,               \* what it returned: a tuple of objects, <<>> for None
    raised,               \* the exception it propagated to its caller, or "none"
    attempt,              \* how its try block (factory.py:91-103) ended, "none" if not entered
    built,                \* the triple it constructed and returned, <<>> if it constructed none
    was,                  \* whether the slots were "unset", "partial" or "set" when it was called
    dropped,              \* every object a slot held when reset_bridges() cleared it
    injected,             \* the triple given to set_bridge_instances and not reset since
    \* threads of a multi-threaded host, each inside at most one call
    pc,                   \* where each thread is in the function it is executing
    fn,                   \* the function each thread is executing or executed last
    tmp,                  \* each thread's tuple under construction or awaiting assignment
    outcome,              \* what each thread's last call returned or raised
    calls,                \* the number of calls the threads have made
    raced,                \* whether a thread ever took a step while another was inside a call
    seen,                 \* the anomalies that have occurred so far
    \* one data model instance (models/types.py) from construction to discard
    mtype,                \* the class constructed, "none" when no instance is in scope
    kwargs,               \* the keyword arguments it was constructed from
    instance,             \* the instance, or the ValidationError raised
    dumped,               \* instance.model_dump(), None until it is called
    rebuilt,              \* the instance constructed from dumped, None until then
    \* one run of the wrapper script (mcp_server_wrapper.py)
    wpc,                  \* where main() is
    env,                  \* the files present and how the calls main() makes end
    sys_path,             \* the entries of sys.path the wrapper looks for
    inflight,             \* the exception in flight
    cause,                \* the first exception raised in the run
    failed,               \* the step that raised it
    imported,             \* whether server_main is bound
    started,              \* whether server_main() has been invoked
    returned,             \* whether server_main() has returned
    status                \* the exit status once wpc is "exited"

vars == <<_pyobjc_bridge, _workspace_bridge, _application_bridge, test_mode,
          objects, op, args, result, raised, attempt, built, was, dropped,
          injected, pc, fn, tmp, outcome, calls, raced, seen,
          mtype, kwargs, instance, dumped, rebuilt,
          wpc, env, sys_path, inflight, cause, failed, imported, started,
          returned, status>>

threadvars == <<pc, fn, tmp, outcome, calls, raced, seen>>

callvars == <<op, args, result, raised, attempt, built, was, dropped, injected>>

modelvars == <<mtype, kwargs, instance, dumped, rebuilt>>

wrappervars == <<wpc, env, sys_path, inflight, cause, failed, imported, started,
                 returned, status>>

slotvars == <<_pyobjc_bridge, _workspace_bridge, _application_bridge>>

----------------------------------------------------------------------------
(* Bounds *)

\* The number of bridge objects a run constructs.
MaxObjects == 6

\* The number of calls the threads make between them.
MaxThreadCalls == 4

----------------------------------------------------------------------------
(* Bridge objects *)

\* Python's None, the value of an unset slot.
None == [cls |-> "NoneType", id |-> 0]

FakePyObjCBridge(n) == [cls |-> "FakePyObjCBridge", id |-> n]
FakeWorkspaceBridge(n) == [cls |-> "FakeWorkspaceBridge", id |-> n]
FakeApplicationBridge(n) == [cls |-> "FakeApplicationBridge", id |-> n]
RealPyObjCBridge(n) == [cls |-> "RealPyObjCBridge", id |-> n]
RealWorkspaceBridge(n) == [cls |-> "RealWorkspaceBridge", id |-> n]
RealApplicationBridge(n) == [cls |-> "RealApplicationBridge", id |-> n]

\* The interfaces the type annotations name (factory.py:15).
PyObjCBridge == {o \in objects : o.cls \in {"FakePyObjCBridge", "RealPyObjCBridge"}}
WorkspaceBridge == {o \in objects : o.cls \in {"FakeWorkspaceBridge", "RealWorkspaceBridge"}}
ApplicationBridge ==
    {o \in objects : o.cls \in {"FakeApplicationBridge", "RealApplicationBridge"}}

IsFake(o) == o.cls \in {"FakePyObjCBridge", "FakeWorkspaceBridge", "FakeApplicationBridge"}
IsReal(o) == o.cls \in {"RealPyObjCBridge", "RealWorkspaceBridge", "RealApplicationBridge"}

\* The set of the members of a tuple.
Members(t) == {t[i] : i \in DOMAIN t}

\* The identity the next constructor call gives its object.
NextId == Cardinality(objects) + 1

\* The three singleton slots, in the order every function of the module uses.
Triple == <<_pyobjc_bridge, _workspace_bridge, _application_bridge>>

AllUnset(t) == t[1] = None /\ t[2] = None /\ t[3] = None
AllSet(t) == t[1] # None /\ t[2] # None /\ t[3] # None

\* A triple of slot values is wholly unset, wholly set, or neither.
Shape(t) == IF AllUnset(t) THEN "unset" ELSE IF AllSet(t) THEN "set" ELSE "partial"

----------------------------------------------------------------------------
(* The environment of the factory *)

\* is_test_mode() of macos_ui_automation.core.registry.
is_test_mode == test_mode

\* How the try block of create_pyobjc_bridge (factory.py:91-103) ends when
\* nothing but ImportError goes wrong: the import of .real_bridge and the
\* three constructors succeed, or an ImportError is raised in it.
ImportOutcomes == {"ok", "ImportError"}

\* The typed error the real bridge raises when its native binding could not
\* be loaded (bridges/real_bridge.py); it is not an ImportError.
RealBridgeErrors == {"BridgeUnavailableError"}

\* Every way the try block can end.
NativeOutcomes == ImportOutcomes \cup RealBridgeErrors

----------------------------------------------------------------------------
(* Factory functions *)

\* factory.py:86-90 and 113-117: three default fake bridges.
DefaultFakes(n) ==
    <<FakePyObjCBridge(n), FakeWorkspaceBridge(n + 1), FakeApplicationBridge(n + 2)>>

\* factory.py:99-103: three real bridges.
Reals(n) ==
    <<RealPyObjCBridge(n), RealWorkspaceBridge(n + 1), RealApplicationBridge(n + 2)>>

\* create_fake_bridges_with_system(applications, running_apps): three fake
\* bridges built around the caller's fixtures; reads no module state.
create_fake_bridges_with_system(n) ==
    <<FakePyObjCBridge(n), FakeWorkspaceBridge(n + 1), FakeApplicationBridge(n + 2)>>

\* create_pyobjc_bridge() without the reuse of instances already set
\* (factory.py:69-76): fake mode always constructs default fakes.
create_pyobjc_bridge_no_reuse(force_fake, native, n) ==
    LET use_fake == force_fake \/ is_test_mode
    IN  IF use_fake
        THEN [ret |-> DefaultFakes(n), exc |-> "none", tried |-> "none",
              new |-> DefaultFakes(n)]
        ELSE IF native = "ok"
        THEN [ret |-> Reals(n), exc |-> "none", tried |-> native, new |-> Reals(n)]
        ELSE IF native = "ImportError"
        THEN [ret |-> DefaultFakes(n), exc |-> "none", tried |-> native,
              new |-> DefaultFakes(n)]
        ELSE [ret |-> <<>>, exc |-> native, tried |-> native, new |-> <<>>]

\* create_pyobjc_bridge() deciding on force_fake alone (factory.py:67
\* without `or is_test_mode()`).
create_pyobjc_bridge_ignores_test_mode(force_fake, native, n) ==
    LET use_fake == force_fake
    IN  IF /\ use_fake
           /\ _pyobjc_bridge # None
           /\ _workspace_bridge # None
           /\ _application_bridge # None
        THEN [ret |-> <<_pyobjc_bridge, _workspace_bridge, _application_bridge>>,
              exc |-> "none", tried |-> "none", new |-> <<>>]
        ELSE IF use_fake
        THEN [ret |-> DefaultFakes(n), exc |-> "none", tried |-> "none",
              new |-> DefaultFakes(n)]
        ELSE IF native = "ok"
        THEN [ret |-> Reals(n), exc |-> "none", tried |-> native, new |-> Reals(n)]
        ELSE IF native = "ImportError"
        THEN [ret |-> DefaultFakes(n), exc |-> "none", tried |-> native,
              new |-> DefaultFakes(n)]
        ELSE [ret |-> <<>>, exc |-> native, tried |-> native, new |-> <<>>]

\* create_pyobjc_bridge() whose fallback keeps the real element-access
\* bridge and replaces only the two bridges whose construction the
\* ImportError prevented.
create_pyobjc_bridge_partial_fallback(force_fake, native, n) ==
    LET use_fake == force_fake \/ is_test_mode
        mixed == <<RealPyObjCBridge(n), FakeWorkspaceBridge(n + 1),
                   FakeApplicationBridge(n + 2)>>
    IN  IF /\ use_fake
           /\ _pyobjc_bridge # None
           /\ _workspace_bridge # None
           /\ _application_bridge # None
        THEN [ret |-> <<_pyobjc_bridge, _workspace_bridge, _application_bridge>>,
              exc |-> "none", tried |-> "none", new |-> <<>>]
        ELSE IF use_fake
        THEN [ret |-> DefaultFakes(n), exc |-> "none", tried |-> "none",
              new |-> DefaultFakes(n)]
        ELSE IF native = "ok"
        THEN [ret |-> Reals(n), exc |-> "none", tried |-> native, new |-> Reals(n)]
        ELSE IF native = "ImportError"
        THEN [ret |-> mixed, exc |-> "none", tried |-> native, new |-> mixed]
        ELSE [ret |-> <<>>, exc |-> native, tried |-> native, new |-> <<>>]

\* create_pyobjc_bridge() without its except clause (factory.py:104-117):
\* an ImportError raised in the try block leaves the function.
create_pyobjc_bridge_no_fallback(force_fake, native, n) ==
    LET use_fake == force_fake \/ is_test_mode
    IN  IF /\ use_fake
           /\ _pyobjc_bridge # None
           /\ _workspace_bridge # None
           /\ _application_bridge # None
        THEN [ret |-> <<_pyobjc_bridge, _workspace_bridge, _application_bridge>>,
              exc |-> "none", tried |-> "none", new |-> <<>>]
        ELSE IF use_fake
        THEN [ret |-> DefaultFakes(n), exc |-> "none", tried |-> "none",
              new |-> DefaultFakes(n)]
        ELSE IF native = "ok"
        THEN [ret |-> Reals(n), exc |-> "none", tried |-> native, new |-> Reals(n)]
        ELSE [ret |-> <<>>, exc |-> native, tried |-> native, new |-> <<>>]

\* create_pyobjc_bridge(force_fake), called when the try block would end as
\* `native` and the next object identity is n.  ret is the returned tuple
\* (<<>> when an exception leaves the function), exc the exception
\* propagated, tried how the try block ended and new the tuple constructed.
create_pyobjc_bridge(force_fake, native, n) ==
    LET use_fake == force_fake \/ is_test_mode
    IN  IF /\ use_fake
           /\ _pyobjc_bridge # None
           /\ _workspace_bridge # None
           /\ _application_bridge # None
        THEN [ret |-> <<_pyobjc_bridge, _workspace_bridge, _application_bridge>>,
              exc |-> "none", tried |-> "none", new |-> <<>>]
        ELSE IF use_fake
        THEN [ret |-> DefaultFakes(n), exc |-> "none", tried |-> "none",
              new |-> DefaultFakes(n)]
        ELSE IF native = "ok"
        THEN [ret |-> Reals(n), exc |-> "none", tried |-> native, new |-> Reals(n)]
        ELSE IF native = "ImportError"
        THEN [ret |-> DefaultFakes(n), exc |-> "none", tried |-> native,
              new |-> DefaultFakes(n)]
        ELSE [ret |-> <<>>, exc |-> native, tried |-> native, new |-> <<>>]


----------------------------------------------------------------------------
(* Data model (models/types.py): the values *)

\* A Python value is a record [t, v]: t is the name of its type and v what
\* it holds.  A float holds its value in tenths, so PyFloat(107) is 10.7.
PyInt(n) == [t |-> "int", v |-> n]
PyFloat(tenths) == [t |-> "float", v |-> tenths]
PyStr(s) == [t |-> "str", v |-> s]
PyBool(b) == [t |-> "bool", v |-> b]
PyNone == [t |-> "NoneType", v |-> "None"]
PyList(items) == [t |-> "list", v |-> items]
PyDict(entries) == [t |-> "dict", v |-> entries]

\* The five model classes; an instance holds every declared field.
ModelTypes == {"Position", "Size", "UIElement", "WindowState", "MenuBarItem"}
Model(T, fields) == [t |-> T, v |-> fields]
IsModel(val) == val.t \in ModelTypes

\* pydantic.ValidationError, naming the offending field.
ValidationError(field) == [t |-> "ValidationError", v |-> field]

\* What a validator yields for a value it cannot coerce.
Invalid == [t |-> "invalid", v |-> "invalid"]

\* A field declaration: its name, the kind of value it holds, whether it is
\* required, and whether it holds a sequence of that kind.
Field(name, kind, required, many) ==
    [name |-> name, kind |-> kind, required |-> required, many |-> many]

Fields(T) ==
    CASE T = "Position" ->
            << Field("x", "coordinate", TRUE, FALSE),
               Field("y", "coordinate", TRUE, FALSE) >>
      [] T = "Size" ->
            << Field("width", "dimension", TRUE, FALSE),
               Field("height", "dimension", TRUE, FALSE) >>
      [] T = "UIElement" ->
            << Field("role", "str", TRUE, FALSE),
               Field("element_type", "str", TRUE, FALSE),
               Field("title", "str", FALSE, FALSE),
               Field("ax_identifier", "str", FALSE, FALSE),
               Field("enabled", "bool", FALSE, FALSE),
               Field("focused", "bool", FALSE, FALSE),
               Field("position", "Position", FALSE, FALSE),
               Field("size", "Size", FALSE, FALSE),
               Field("value", "scalar", FALSE, FALSE),
               Field("actions", "str", FALSE, TRUE),
               Field("children_count", "int", FALSE, FALSE),
               Field("children", "UIElement", FALSE, TRUE) >>
      [] T = "WindowState" ->
            << Field("title", "str", TRUE, FALSE),
               Field("window_id", "int", TRUE, FALSE),
               Field("position", "Position", FALSE, FALSE),
               Field("size", "Size", FALSE, FALSE),
               Field("minimized", "bool", FALSE, FALSE),
               Field("children", "UIElement", FALSE, TRUE) >>
      [] T = "MenuBarItem" ->
            << Field("title", "str", TRUE, FALSE),
               Field("enabled", "bool", TRUE, FALSE),
               Field("submenu", "MenuBarItem", FALSE, TRUE) >>

FieldNames(T) == {Fields(T)[i].name : i \in DOMAIN Fields(T)}
BoolFields(T) == {Fields(T)[i].name : i \in {j \in DOMAIN Fields(T) : Fields(T)[j].kind = "bool"}}

----------------------------------------------------------------------------
(* Data model: validation and coercion *)

\* A fractional number rounded half up, in tenths.
Trunc_rounds(tenths) ==
    IF tenths >= 0 THEN (tenths + 5) \div 10 ELSE -((5 - tenths) \div 10)

\* The integer part of a number given in tenths (towards zero).
Trunc(tenths) ==
    IF tenths >= 0 THEN tenths \div 10 ELSE -((-tenths) \div 10)

IsWhole(tenths) == tenths % 10 = 0

RECURSIVE Validate(_, _)

\* A boolean field that takes any string as True.
Coerce_truthy(kind, val) ==
    CASE kind = "coordinate" ->
            IF val.t = "int" THEN val
            ELSE IF val.t = "float" THEN PyInt(Trunc(val.v))
            ELSE Invalid
      [] kind = "dimension" ->
            IF val.t = "int" /\ val.v >= 0 THEN val
            ELSE IF val.t = "float" /\ IsWhole(val.v) /\ val.v >= 0
                 THEN PyInt(Trunc(val.v))
            ELSE Invalid
      [] kind = "int" ->
            IF val.t = "int" THEN val
            ELSE IF val.t = "float" /\ IsWhole(val.v) THEN PyInt(Trunc(val.v))
            ELSE Invalid
      [] kind = "str" -> IF val.t = "str" THEN val ELSE Invalid
      [] kind = "bool" ->
            IF val.t = "bool" THEN val
            ELSE IF val.t = "str" THEN PyBool(TRUE)
            ELSE Invalid
      [] kind = "scalar" ->
            IF val.t \in {"str", "int", "float", "bool"} THEN val ELSE Invalid
      [] kind \in ModelTypes ->
            IF val.t = kind THEN val
            ELSE IF val.t = "dict"
                 THEN LET m == Validate(kind, val.v)
                      IN  IF m.t = kind THEN m ELSE Invalid
            ELSE Invalid

\* The value a field of the given kind stores for a given input.
Coerce(kind, val) ==
    CASE kind = "coordinate" ->
            IF val.t = "int" THEN val
            ELSE IF val.t = "float" THEN PyInt(Trunc(val.v))
            ELSE Invalid
      [] kind = "dimension" ->
            IF val.t = "int" /\ val.v >= 0 THEN val
            ELSE IF val.t = "float" /\ IsWhole(val.v) /\ val.v >= 0
                 THEN PyInt(Trunc(val.v))
            ELSE Invalid
      [] kind = "int" ->
            IF val.t = "int" THEN val
            ELSE IF val.t = "float" /\ IsWhole(val.v) THEN PyInt(Trunc(val.v))
            ELSE Invalid
      [] kind = "str" -> IF val.t = "str" THEN val ELSE Invalid
      [] kind = "bool" -> IF val.t = "bool" THEN val ELSE Invalid
      [] kind = "scalar" ->
            IF val.t \in {"str", "int", "float", "bool"} THEN val ELSE Invalid
      [] kind \in ModelTypes ->
            IF val.t = kind THEN val
            ELSE IF val.t = "dict"
                 THEN LET m == Validate(kind, val.v)
                      IN  IF m.t = kind THEN m ELSE Invalid
            ELSE Invalid

\* A sequence field coerces each item in place, keeping the order.
CoerceField(f, val) ==
    IF ~f.many THEN Coerce(f.kind, val)
    ELSE IF val.t # "list" THEN Invalid
    ELSE LET items == [i \in DOMAIN val.v |-> Coerce(f.kind, val.v[i])]
         IN  IF \E i \in DOMAIN items : items[i] = Invalid
             THEN Invalid
             ELSE PyList(items)

\* The least member of a non-empty set of numbers.
Least(S) == CHOOSE i \in S : \A j \in S : i <= j

\* A constructor that takes None for no field.
Validate_rejects_None(T, kw) ==
    LET decl == Fields(T)
        got(i) ==
            IF decl[i].name \in DOMAIN kw
            THEN CoerceField(decl[i], kw[decl[i].name])
            ELSE IF decl[i].required THEN Invalid ELSE PyNone
        bad == {i \in DOMAIN decl : got(i) = Invalid}
    IN  IF bad # {}
        THEN ValidationError(decl[Least(bad)].name)
        ELSE Model(T, [n \in FieldNames(T) |->
                          got(CHOOSE i \in DOMAIN decl : decl[i].name = n)])

\* T(**kw): the instance constructed from keyword arguments kw, or the
\* ValidationError raised.  An optional field left out, or given None, is None.
Validate(T, kw) ==
    LET decl == Fields(T)
        got(i) ==
            IF decl[i].name \in DOMAIN kw
            THEN IF kw[decl[i].name] = PyNone /\ ~decl[i].required
                 THEN PyNone
                 ELSE CoerceField(decl[i], kw[decl[i].name])
            ELSE IF decl[i].required THEN Invalid ELSE PyNone
        bad == {i \in DOMAIN decl : got(i) = Invalid}
    IN  IF bad # {}
        THEN ValidationError(decl[Least(bad)].name)
        ELSE Model(T, [n \in FieldNames(T) |->
                          got(CHOOSE i \in DOMAIN decl : decl[i].name = n)])

Position(kw) == Validate("Position", kw)
Size(kw) == Validate("Size", kw)
UIElement(kw) == Validate("UIElement", kw)
WindowState(kw) == Validate("WindowState", kw)
MenuBarItem(kw) == Validate("MenuBarItem", kw)

----------------------------------------------------------------------------
(* Data model: serialization *)

\* The items of a sequence in the opposite order.
Reversed(s) == [i \in DOMAIN s |-> s[Len(s) + 1 - i]]

RECURSIVE DumpValue_reversed(_)
\* A projection that emits sequences back to front.
DumpValue_reversed(val) ==
    IF IsModel(val)
    THEN PyDict([n \in DOMAIN val.v |-> DumpValue_reversed(val.v[n])])
    ELSE IF val.t = "list"
    THEN PyList(Reversed([i \in DOMAIN val.v |-> DumpValue_reversed(val.v[i])]))
    ELSE val

RECURSIVE DumpValue(_)
\* A model becomes a mapping of its fields, a sequence a sequence of its
\* items' projections; any other value is emitted as it is, None included.
DumpValue(val) ==
    IF IsModel(val)
    THEN PyDict([n \in DOMAIN val.v |-> DumpValue(val.v[n])])
    ELSE IF val.t = "list"
    THEN PyList([i \in DOMAIN val.v |-> DumpValue(val.v[i])])
    ELSE val

model_dump(instance_) == DumpValue(instance_)

----------------------------------------------------------------------------
(* Threads *)

\* Two threads of the host process share the module.
Threads == {"t1", "t2"}

\* What one call handed back: a value, or the exception it propagated.
Returned(v) == [val |-> v, exc |-> "none"]
Raised(e) == [val |-> None, exc |-> e]

\* No thread is inside a call and none has made one.
ThreadsIdle ==
    /\ pc = [t \in Threads |-> "idle"]
    /\ fn = [t \in Threads |-> "none"]
    /\ tmp = [t \in Threads |-> <<>>]
    /\ outcome = [t \in Threads |-> Returned(None)]
    /\ calls = 0
    /\ raced = FALSE
    /\ seen = {}

----------------------------------------------------------------------------
(* Initial values of the data model's and the wrapper's variables *)

\* No model instance is in scope.
ModelsIdle ==
    /\ mtype = "none"
    /\ kwargs = <<>>
    /\ instance = PyNone
    /\ dumped = PyNone
    /\ rebuilt = PyNone

\* How a call ends: it returns, or raises an exception of class cls
\* (SystemExit carrying its exit code).
Returns == [cls |-> "none", code |-> 0]
Raises(cls) == [cls |-> cls, code |-> 0]
SystemExit(code) == [cls |-> "SystemExit", code |-> code]

\* The wrapper has not been launched.
WrapperIdle ==
    /\ wpc = "idle"
    /\ env = [src_exists |-> FALSE, module_exists |-> FALSE, src_on_path |-> FALSE,
              setup |-> Returns, importing |-> Returns, serving |-> Returns]
    /\ sys_path = {}
    /\ inflight = Returns
    /\ cause = Returns
    /\ failed = "none"
    /\ imported = FALSE
    /\ started = FALSE
    /\ returned = FALSE
    /\ status = 0

----------------------------------------------------------------------------
(* Initial state: the module has just been imported (factory.py:19-22). *)

Init ==
    /\ _pyobjc_bridge = None
    /\ _workspace_bridge = None
    /\ _application_bridge = None
    /\ test_mode \in BOOLEAN
    /\ objects = {}
    /\ op = "import"
    /\ args = <<>>
    /\ result = <<>>
    /\ raised = "none"
    /\ attempt = "none"
    /\ built = <<>>
    /\ was = "unset"
    /\ dropped = {}
    /\ injected = <<>>
    /\ ThreadsIdle
    /\ ModelsIdle
    /\ WrapperIdle

\* The record of one call: its name, arguments, return value, propagated
\* exception, the end of its try block, the triple it constructed, and the
\* shape of the slots it found.
Observe(name, a, ret, exc, tried, new) ==
    /\ op' = name
    /\ args' = a
    /\ result' = ret
    /\ raised' = exc
    /\ attempt' = tried
    /\ built' = new
    /\ was' = Shape(Triple)
    /\ objects' = objects \cup Members(new)
    /\ UNCHANGED <<threadvars, modelvars, wrappervars>>

\* Room for one more construction of three objects.
CanConstruct == Cardinality(objects) + 3 <= MaxObjects

----------------------------------------------------------------------------
(* Accessors *)

\* An accessor that fills only the slots it found unset and keeps the
\* others: `if _x is None: _x = ...` slot by slot instead of the one tuple
\* assignment of factory.py:134.
Accessor_fills_unset_only(name, own) ==
    \E native \in NativeOutcomes :
        LET stale == \/ _pyobjc_bridge = None
                     \/ _workspace_bridge = None
                     \/ _application_bridge = None
            c == create_pyobjc_bridge(FALSE, native, NextId)
            keep(old, new) == IF old = None THEN new ELSE old
        IN  /\ stale => CanConstruct
            /\ ~stale => native = "ok"
            /\ IF stale /\ c.exc # "none"
               THEN /\ UNCHANGED slotvars
                    /\ Observe(name, <<>>, <<>>, c.exc, c.tried, <<>>)
               ELSE IF stale
               THEN /\ _pyobjc_bridge' = keep(_pyobjc_bridge, c.ret[1])
                    /\ _workspace_bridge' = keep(_workspace_bridge, c.ret[2])
                    /\ _application_bridge' = keep(_application_bridge, c.ret[3])
                    /\ Observe(name, <<>>, <<keep(Triple[own], c.ret[own])>>, "none",
                               c.tried, c.new)
               ELSE /\ UNCHANGED slotvars
                    /\ Observe(name, <<>>, <<Triple[own]>>, "none", "none", <<>>)
            /\ UNCHANGED <<test_mode, dropped, injected>>

\* An accessor that clears the three slots before it calls
\* create_pyobjc_bridge(), so that a raising call leaves them all None.
Accessor_clears_before_create(name, own) ==
    \E native \in NativeOutcomes :
        LET stale == \/ _pyobjc_bridge = None
                     \/ _workspace_bridge = None
                     \/ _application_bridge = None
            c == create_pyobjc_bridge(FALSE, native, NextId)
        IN  /\ stale => CanConstruct
            /\ ~stale => native = "ok"
            /\ IF stale /\ c.exc # "none"
               THEN /\ _pyobjc_bridge' = None
                    /\ _workspace_bridge' = None
                    /\ _application_bridge' = None
                    /\ Observe(name, <<>>, <<>>, c.exc, c.tried, <<>>)
               ELSE IF stale
               THEN /\ _pyobjc_bridge' = c.ret[1]
                    /\ _workspace_bridge' = c.ret[2]
                    /\ _application_bridge' = c.ret[3]
                    /\ Observe(name, <<>>, <<c.ret[own]>>, "none", c.tried, c.new)
               ELSE /\ UNCHANGED slotvars
                    /\ Observe(name, <<>>, <<Triple[own]>>, "none", "none", <<>>)
            /\ UNCHANGED <<test_mode, dropped, injected>>

\* The body shared by the three accessors (factory.py:127-136, 146-155,
\* 165-174): if any slot is None, assign all three from one
\* create_pyobjc_bridge() call; then return slot number `own`.
Accessor(name, own) ==
    \E native \in NativeOutcomes :
        LET stale == \/ _pyobjc_bridge = None
                     \/ _workspace_bridge = None
                     \/ _application_bridge = None
            c == create_pyobjc_bridge(FALSE, native, NextId)
        IN  /\ stale => CanConstruct
            /\ ~stale => native = "ok"
            /\ IF stale /\ c.exc # "none"
               THEN \* the exception leaves the accessor before the assignment
                    /\ UNCHANGED slotvars
                    /\ Observe(name, <<>>, <<>>, c.exc, c.tried, <<>>)
               ELSE IF stale
               THEN /\ _pyobjc_bridge' = c.ret[1]
                    /\ _workspace_bridge' = c.ret[2]
                    /\ _application_bridge' = c.ret[3]
                    /\ Observe(name, <<>>, <<c.ret[own]>>, "none", c.tried, c.new)
               ELSE /\ UNCHANGED slotvars
                    /\ Observe(name, <<>>, <<Triple[own]>>, "none", "none", <<>>)
            /\ UNCHANGED <<test_mode, dropped, injected>>

get_pyobjc_bridge == Accessor("get_pyobjc_bridge", 1)
get_workspace_bridge == Accessor("get_workspace_bridge", 2)
get_application_bridge == Accessor("get_application_bridge", 3)

----------------------------------------------------------------------------
(* Reset and injection *)

\* reset_bridges() with its last assignment lost: _application_bridge is
\* left as it was.
reset_bridges_keeps_application ==
    /\ _pyobjc_bridge' = None
    /\ _workspace_bridge' = None
    /\ UNCHANGED _application_bridge
    /\ Observe("reset_bridges", <<>>, <<>>, "none", "none", <<>>)
    /\ dropped' = dropped \cup (Members(Triple) \ {None})
    /\ injected' = <<>>
    /\ UNCHANGED test_mode

\* reset_bridges() without its `global` statement (factory.py:183): the
\* three assignments bind locals and the module's slots stay as they are.
reset_bridges_assigns_locals ==
    /\ UNCHANGED slotvars
    /\ Observe("reset_bridges", <<>>, <<>>, "none", "none", <<>>)
    /\ dropped' = dropped \cup (Members(Triple) \ {None})
    /\ injected' = <<>>
    /\ UNCHANGED test_mode

\* reset_bridges() (factory.py:183-186).
reset_bridges ==
    /\ _pyobjc_bridge' = None
    /\ _workspace_bridge' = None
    /\ _application_bridge' = None
    /\ Observe("reset_bridges", <<>>, <<>>, "none", "none", <<>>)
    /\ dropped' = dropped \cup (Members(Triple) \ {None})
    /\ injected' = <<>>
    /\ UNCHANGED test_mode

\* set_bridge_instances() with two right-hand sides exchanged: the
\* workspace slot gets the application bridge and the other way round.
set_bridge_instances_crossed(pyobjc_bridge, workspace_bridge, application_bridge) ==
    /\ _pyobjc_bridge' = pyobjc_bridge
    /\ _workspace_bridge' = application_bridge
    /\ _application_bridge' = workspace_bridge
    /\ Observe("set_bridge_instances",
               <<pyobjc_bridge, workspace_bridge, application_bridge>>,
               <<>>, "none", "none", <<>>)
    /\ injected' = <<pyobjc_bridge, workspace_bridge, application_bridge>>
    /\ UNCHANGED <<test_mode, dropped>>

\* set_bridge_instances(pyobjc_bridge, workspace_bridge, application_bridge)
\* (factory.py:204-207).
set_bridge_instances(pyobjc_bridge, workspace_bridge, application_bridge) ==
    /\ _pyobjc_bridge' = pyobjc_bridge
    /\ _workspace_bridge' = workspace_bridge
    /\ _application_bridge' = application_bridge
    /\ Observe("set_bridge_instances",
               <<pyobjc_bridge, workspace_bridge, application_bridge>>,
               <<>>, "none", "none", <<>>)
    /\ injected' = <<pyobjc_bridge, workspace_bridge, application_bridge>>
    /\ UNCHANGED <<test_mode, dropped>>

\* A caller injects three bridge instances it holds, as the annotations of
\* factory.py:190-192 ask: any bridge constructed earlier, fake or real.
InjectBridges ==
    \E p \in PyObjCBridge, w \in WorkspaceBridge, a \in ApplicationBridge :
        set_bridge_instances(p, w, a)

\* A caller passes None for at least one argument: the annotations are not
\* enforced at run time.
InjectWithNone ==
    \E p \in PyObjCBridge \cup {None}, w \in WorkspaceBridge \cup {None},
       a \in ApplicationBridge \cup {None} :
        /\ None \in {p, w, a}
        /\ set_bridge_instances(p, w, a)

----------------------------------------------------------------------------
(* Direct calls of the factory functions, and the test-mode flag *)

\* create_pyobjc_bridge() caching what it constructed in the three slots,
\* as if it declared them global and assigned them before returning.
call_create_pyobjc_bridge_caching ==
    \E force_fake \in BOOLEAN, native \in NativeOutcomes :
        LET c == create_pyobjc_bridge(force_fake, native, NextId)
        IN  /\ CanConstruct
            /\ (c.tried = "none") => native = "ok"
            /\ Observe("create_pyobjc_bridge", <<force_fake>>, c.ret, c.exc, c.tried, c.new)
            /\ IF c.new # <<>>
               THEN /\ _pyobjc_bridge' = c.new[1]
                    /\ _workspace_bridge' = c.new[2]
                    /\ _application_bridge' = c.new[3]
               ELSE UNCHANGED slotvars
            /\ UNCHANGED <<test_mode, dropped, injected>>

\* A caller calls create_pyobjc_bridge(force_fake) itself.  The function has
\* no `global` statement: it reads the slots and assigns none.
call_create_pyobjc_bridge ==
    \E force_fake \in BOOLEAN, native \in NativeOutcomes :
        LET c == create_pyobjc_bridge(force_fake, native, NextId)
        IN  /\ CanConstruct
            /\ (c.tried = "none") => native = "ok"
            /\ Observe("create_pyobjc_bridge", <<force_fake>>, c.ret, c.exc, c.tried, c.new)
            /\ UNCHANGED <<slotvars, test_mode, dropped, injected>>

\* A caller calls create_fake_bridges_with_system(applications, running_apps).
call_create_fake_bridges_with_system ==
    LET t == create_fake_bridges_with_system(NextId)
    IN  /\ CanConstruct
        /\ Observe("create_fake_bridges_with_system", <<>>, t, "none", "none", t)
        /\ UNCHANGED <<slotvars, test_mode, dropped, injected>>

\* The registry's test-mode flag is switched (outside this module).
set_test_mode ==
    /\ test_mode' = ~test_mode
    /\ Observe("set_test_mode", <<test_mode'>>, <<>>, "none", "none", <<>>)
    /\ UNCHANGED <<slotvars, dropped, injected>>

----------------------------------------------------------------------------
(* Specifications *)

\* Callers that respect the annotations of set_bridge_instances.
Next ==
    \/ get_pyobjc_bridge
    \/ get_workspace_bridge
    \/ get_application_bridge
    \/ reset_bridges
    \/ InjectBridges
    \/ call_create_pyobjc_bridge
    \/ call_create_fake_bridges_with_system
    \/ set_test_mode

Spec == Init /\ [][Next]_vars

\* Callers that may also pass None to set_bridge_instances.
NextAnyArgs == Next \/ InjectWithNone

SpecAnyArgs == Init /\ [][NextAnyArgs]_vars

----------------------------------------------------------------------------
(* Vocabulary of the properties *)

Accessors == {"get_pyobjc_bridge", "get_workspace_bridge", "get_application_bridge"}

\* The slot an accessor returns.
OwnSlot(name) ==
    IF name = "get_pyobjc_bridge" THEN 1
    ELSE IF name = "get_workspace_bridge" THEN 2 ELSE 3

AllFake(t) == Len(t) = 3 /\ \A i \in 1..3 : IsFake(t[i])
AllReal(t) == Len(t) = 3 /\ \A i \in 1..3 : IsReal(t[i])

----------------------------------------------------------------------------
(* The same functions executed by two threads, one global read or write per *)
(* step: the interpreter may switch threads between any two of them.        *)

\* Thread t takes a step to label `to`; the step is interleaved with a call
\* if another thread is inside one.
Step(t, to) ==
    /\ pc' = [pc EXCEPT ![t] = to]
    /\ raced' = (raced \/ \E u \in Threads \ {t} : pc[u] # "idle")
    /\ UNCHANGED <<modelvars, wrappervars>>

\* Slot i is assigned v (a STORE_GLOBAL).
StoreGlobal(i, v) ==
    /\ _pyobjc_bridge' = IF i = 1 THEN v ELSE _pyobjc_bridge
    /\ _workspace_bridge' = IF i = 2 THEN v ELSE _workspace_bridge
    /\ _application_bridge' = IF i = 3 THEN v ELSE _application_bridge

Label(prefix, i) ==
    IF i = 1 THEN prefix \o "1" ELSE IF i = 2 THEN prefix \o "2" ELSE prefix \o "3"

\* Another thread is between the first and the last assignment of
\* reset_bridges().
ResetUnderWay(t) == \E u \in Threads \ {t} : pc[u] \in {"reset2", "reset3"}

\* A thread other than t holds, from an accessor call it completed, the
\* bridge v.
HandedOut(t, v) ==
    \E u \in Threads \ {t} :
        /\ pc[u] = "idle"
        /\ fn[u] \in Accessors
        /\ outcome[u] = Returned(v)

\* Thread t calls one of the accessors or reset_bridges().
Call(t) ==
    \E f \in Accessors \cup {"reset_bridges"} :
        /\ pc[t] = "idle"
        /\ calls < MaxThreadCalls
        /\ calls' = calls + 1
        /\ fn' = [fn EXCEPT ![t] = f]
        /\ tmp' = [tmp EXCEPT ![t] = <<>>]
        /\ Step(t, IF f = "reset_bridges" THEN "reset1" ELSE "check1")
        /\ UNCHANGED <<slotvars, test_mode, objects, outcome, seen, callvars>>

\* The i-th operand of the accessor's `is None or ... or ...` test
\* (factory.py:129-133): one global read; the first None operand ends the
\* test and leads to the call of create_pyobjc_bridge().
Check(t, i) ==
    /\ pc[t] = Label("check", i)
    /\ Step(t, IF Triple[i] = None THEN "create"
               ELSE IF i = 3 THEN "return" ELSE Label("check", i + 1))
    /\ seen' = IF Shape(Triple) = "partial" /\ ResetUnderWay(t)
               THEN seen \cup {"read a partly cleared triple"} ELSE seen
    /\ UNCHANGED <<slotvars, test_mode, objects, fn, tmp, outcome, calls, callvars>>

\* create_pyobjc_bridge() as the accessor calls it (force_fake false), up to
\* the choice of mode (factory.py:64-67), and the try block of real mode
\* with its except clause (91-117).
Create(t) ==
    /\ pc[t] = "create"
    /\ IF is_test_mode
       THEN /\ Step(t, "held1")
            /\ UNCHANGED <<objects, tmp, outcome>>
       ELSE \E native \in NativeOutcomes :
                IF native \in ImportOutcomes
                THEN /\ CanConstruct
                     /\ tmp' = [tmp EXCEPT ![t] = IF native = "ok" THEN Reals(NextId)
                                                  ELSE DefaultFakes(NextId)]
                     /\ objects' = objects \cup Members(tmp'[t])
                     /\ Step(t, "store1")
                     /\ UNCHANGED outcome
                ELSE /\ outcome' = [outcome EXCEPT ![t] = Raised(native)]
                     /\ Step(t, "idle")
                     /\ UNCHANGED <<objects, tmp>>
    /\ UNCHANGED <<slotvars, test_mode, fn, seen, calls, callvars>>

\* The i-th operand of the fake-mode test for instances already set
\* (factory.py:70-75): a None operand leads to the construction of three
\* default fakes (78-90), three operands that are set to the return of the
\* held instances (76).
Held(t, i) ==
    /\ pc[t] = Label("held", i)
    /\ IF Triple[i] = None
       THEN /\ CanConstruct
            /\ tmp' = [tmp EXCEPT ![t] = DefaultFakes(NextId)]
            /\ objects' = objects \cup Members(tmp'[t])
            /\ Step(t, "store1")
       ELSE /\ Step(t, IF i = 3 THEN "load1" ELSE Label("held", i + 1))
            /\ UNCHANGED <<objects, tmp>>
    /\ UNCHANGED <<slotvars, test_mode, fn, outcome, seen, calls, callvars>>

\* `return _pyobjc_bridge, _workspace_bridge, _application_bridge`
\* (factory.py:76): the i-th global is read into the tuple returned.
Load(t, i) ==
    /\ pc[t] = Label("load", i)
    /\ tmp' = [tmp EXCEPT ![t] = Append(@, Triple[i])]
    /\ Step(t, IF i = 3 THEN "store1" ELSE Label("load", i + 1))
    /\ UNCHANGED <<slotvars, test_mode, objects, fn, outcome, seen, calls, callvars>>

\* The record of a store of v into slot i by thread t: a bridge another
\* thread was handed is no longer the one in its slot.
StoreSeen(t, i, v) ==
    IF Triple[i] # None /\ Triple[i] # v /\ HandedOut(t, Triple[i])
    THEN seen \cup {"handed-out bridge replaced"} ELSE seen

\* An accessor that assigns only the slot it returns, as in
\* `_workspace_bridge = create_pyobjc_bridge()[1]`.
Store_own_slot_only(t, i) ==
    /\ pc[t] = Label("store", i)
    /\ IF i = OwnSlot(fn[t])
       THEN /\ StoreGlobal(i, tmp[t][i])
            /\ seen' = StoreSeen(t, i, tmp[t][i])
       ELSE UNCHANGED <<slotvars, seen>>
    /\ Step(t, IF i = 3 THEN "return" ELSE Label("store", i + 1))
    /\ UNCHANGED <<test_mode, objects, fn, tmp, outcome, calls, callvars>>

\* The tuple assignment of the accessors (factory.py:134, 153, 172): the
\* i-th member of the tuple returned is stored in the i-th slot.
Store(t, i) ==
    /\ pc[t] = Label("store", i)
    /\ StoreGlobal(i, tmp[t][i])
    /\ seen' = StoreSeen(t, i, tmp[t][i])
    /\ Step(t, IF i = 3 THEN "return" ELSE Label("store", i + 1))
    /\ UNCHANGED <<test_mode, objects, fn, tmp, outcome, calls, callvars>>

\* The accessor's return statement (factory.py:136, 155, 174): its own slot
\* is read and handed to the caller.
Return(t) ==
    /\ pc[t] = "return"
    /\ outcome' = [outcome EXCEPT ![t] = Returned(Triple[OwnSlot(fn[t])])]
    /\ seen' = IF Triple[OwnSlot(fn[t])] = None
               THEN seen \cup {"accessor returned None"} ELSE seen
    /\ tmp' = [tmp EXCEPT ![t] = <<>>]
    /\ Step(t, "idle")
    /\ UNCHANGED <<slotvars, test_mode, objects, fn, calls, callvars>>

\* The i-th assignment of reset_bridges() (factory.py:184-186); the function
\* returns None after the third.
Reset(t, i) ==
    /\ pc[t] = Label("reset", i)
    /\ StoreGlobal(i, None)
    /\ outcome' = IF i = 3 THEN [outcome EXCEPT ![t] = Returned(None)] ELSE outcome
    /\ Step(t, IF i = 3 THEN "idle" ELSE Label("reset", i + 1))
    /\ UNCHANGED <<test_mode, objects, fn, tmp, seen, calls, callvars>>

NextThreads ==
    \E t \in Threads :
        \/ Call(t)
        \/ \E i \in 1..3 : Check(t, i)
        \/ Create(t)
        \/ \E i \in 1..3 : Held(t, i)
        \/ \E i \in 1..3 : Load(t, i)
        \/ \E i \in 1..3 : Store(t, i)
        \/ Return(t)
        \/ \E i \in 1..3 : Reset(t, i)

\* No lock is taken anywhere in the module: any interleaving is possible.
SpecThreads == Init /\ [][NextThreads]_vars

----------------------------------------------------------------------------
(* Data model: the values the models are constructed from *)

\* A keyword argument that is not passed.
Absent == [t |-> "absent", v |-> "absent"]

\* The keyword arguments of a call: the fields of rec that are passed.
Kwargs(rec) == [n \in {m \in DOMAIN rec : rec[m] # Absent} |-> rec[n]]

Coordinates ==
    {Absent, PyInt(-10), PyInt(0), PyInt(50), PyFloat(107), PyFloat(203),
     PyFloat(-107), PyFloat(105), PyStr("left")}

Dimensions ==
    {Absent, PyInt(0), PyInt(200), PyInt(-1), PyFloat(800), PyFloat(255),
     PyStr("wide")}

PositionInputs == {Kwargs(r) : r \in [x : Coordinates, y : Coordinates]}

SizeInputs == {Kwargs(r) : r \in [width : Dimensions, height : Dimensions]}

SomePosition == Position([x |-> PyInt(100), y |-> PyInt(200)])
PositionData == PyDict([x |-> PyFloat(507), y |-> PyInt(-100)])
SomeSize == Size([width |-> PyInt(80), height |-> PyInt(30)])
SizeData == PyDict([width |-> PyInt(-1), height |-> PyInt(30)])

Button ==
    UIElement([role |-> PyStr("AXButton"), element_type |-> PyStr("button"),
               title |-> PyStr("Submit"), enabled |-> PyBool(TRUE),
               position |-> Position([x |-> PyInt(200), y |-> PyInt(300)]),
               size |-> Size([width |-> PyInt(100), height |-> PyInt(30)])])

TextField ==
    UIElement([role |-> PyStr("AXTextField"), element_type |-> PyStr("textfield"),
               position |-> Position([x |-> PyInt(200), y |-> PyInt(250)]),
               size |-> Size([width |-> PyInt(200), height |-> PyInt(25)]),
               value |-> PyStr("Enter text here")])

Panel ==
    UIElement([role |-> PyStr("AXGroup"), element_type |-> PyStr("group"),
               children_count |-> PyInt(2),
               children |-> PyList(<<TextField, Button>>)])

ButtonData == PyDict([role |-> PyStr("AXButton"), element_type |-> PyStr("button")])

UIElementInputs ==
    {Kwargs(r) : r \in
        [role : {Absent, PyStr("AXButton")},
         element_type : {Absent, PyStr("button")},
         title : {Absent, PyStr("Submit")},
         ax_identifier : {Absent, PyStr("submit-btn")},
         enabled : {Absent, PyBool(TRUE), PyStr("not_a_boolean"), PyNone},
         focused : {Absent, PyBool(FALSE), PyInt(1)},
         position : {Absent, PositionData},
         size : {Absent, SomeSize},
         value : {Absent, PyInt(0)},
         actions : {Absent, PyList(<<PyStr("AXPress"), PyStr("AXCancel")>>)},
         children_count : {Absent, PyInt(0)},
         children : {Absent, PyList(<<TextField, Button>>), PyList(<<Panel>>)}]}

WindowStateInputs ==
    {Kwargs(r) : r \in
        [title : {Absent, PyStr("Login Form")},
         window_id : {Absent, PyInt(1001), PyFloat(10010), PyFloat(10015),
                      PyStr("main")},
         position : {Absent, SomePosition, PositionData},
         size : {Absent, SomeSize, SizeData},
         minimized : {Absent, PyBool(FALSE), PyStr("not_a_boolean")},
         children : {Absent, PyNone, PyList(<<>>),
                     PyList(<<TextField, Button>>),
                     PyList(<<Button, TextField>>),
                     PyList(<<Panel, Button>>), PyList(<<ButtonData>>)}]}

DeepItem == MenuBarItem([title |-> PyStr("Deep Item"), enabled |-> PyBool(TRUE)])
MidItem ==
    MenuBarItem([title |-> PyStr("Mid Item"), enabled |-> PyBool(TRUE),
                 submenu |-> PyList(<<DeepItem>>)])
SaveAs == MenuBarItem([title |-> PyStr("Save As..."), enabled |-> PyBool(TRUE)])
SaveAsData == PyDict([title |-> PyStr("Save As..."), enabled |-> PyBool(TRUE)])

MenuBarItemInputs ==
    {Kwargs(r) : r \in
        [title : {Absent, PyStr("Top Item")},
         enabled : {Absent, PyBool(TRUE), PyBool(FALSE),
                    PyStr("not_a_boolean"), PyNone},
         submenu : {Absent, PyNone, PyList(<<>>), PyList(<<SaveAs>>),
                    PyList(<<MidItem>>), PyList(<<SaveAs, MidItem>>),
                    PyList(<<MidItem, SaveAs>>), PyList(<<SaveAsData>>)}]}

Inputs(T) ==
    CASE T = "Position" -> PositionInputs
      [] T = "Size" -> SizeInputs
      [] T = "UIElement" -> UIElementInputs
      [] T = "WindowState" -> WindowStateInputs
      [] T = "MenuBarItem" -> MenuBarItemInputs

----------------------------------------------------------------------------
(* Data model: one instance from construction to discard *)

notmodelvars == <<slotvars, test_mode, objects, callvars, threadvars, wrappervars>>

\* T(**kw) for one of the five classes.
Construct ==
    /\ mtype = "none"
    /\ \E T \in ModelTypes :
        \E kw \in Inputs(T) :
            /\ mtype' = T
            /\ kwargs' = kw
            /\ instance' = Validate(T, kw)
    /\ UNCHANGED <<dumped, rebuilt, notmodelvars>>

\* data = instance.model_dump()
Serialize ==
    /\ IsModel(instance)
    /\ dumped = PyNone
    /\ dumped' = model_dump(instance)
    /\ UNCHANGED <<mtype, kwargs, instance, rebuilt, notmodelvars>>

\* T(**data)
Reconstruct ==
    /\ dumped # PyNone
    /\ rebuilt = PyNone
    /\ rebuilt' = Validate(mtype, dumped.v)
    /\ UNCHANGED <<mtype, kwargs, instance, dumped, notmodelvars>>

\* The instance and what was made of it go out of scope.
Discard ==
    /\ mtype # "none"
    /\ mtype' = "none"
    /\ kwargs' = <<>>
    /\ instance' = PyNone
    /\ dumped' = PyNone
    /\ rebuilt' = PyNone
    /\ UNCHANGED notmodelvars

NextModels == Construct \/ Serialize \/ Reconstruct \/ Discard

SpecModels == Init /\ [][NextModels]_vars

----------------------------------------------------------------------------
(* The wrapper script (mcp_server_wrapper.py): one run of main() *)

notwrappervars == <<slotvars, test_mode, objects, callvars, threadvars, modelvars>>

\* Subclasses of ImportError, and of Exception.
IsImportError(e) == e.cls \in {"ImportError", "ModuleNotFoundError"}
IsException(e) ==
    e.cls \in {"ImportError", "ModuleNotFoundError", "OSError", "RuntimeError"}

\* What a run can meet: whether src/ and src/macos_ui_automation/mcp_server.py
\* exist, whether src/ is on sys.path already, and how the logging and chdir
\* of lines 19-33, the import of line 56 and server_main() end.
Environments ==
    {e \in [src_exists : BOOLEAN, module_exists : BOOLEAN, src_on_path : BOOLEAN,
            setup : {Returns, Raises("OSError")},
            importing : {Returns, Raises("ImportError"),
                         Raises("ModuleNotFoundError"), Raises("RuntimeError"),
                         Raises("KeyboardInterrupt")},
            serving : {Returns, Raises("ImportError"), Raises("RuntimeError"),
                       Raises("KeyboardInterrupt"), SystemExit(0), SystemExit(2)}] :
        e.module_exists => e.src_exists}

\* The exit status of the interpreter when e leaves main() uncaught, or when
\* main() returns.
ExitStatus(e) ==
    IF e.cls = "none" THEN 0
    ELSE IF e.cls = "SystemExit" THEN e.code
    ELSE IF e.cls = "KeyboardInterrupt" THEN 130
    ELSE 1

\* Exception e is raised by the step named at.
Raise(e, at) ==
    /\ inflight' = e
    /\ cause' = e
    /\ failed' = at
    /\ wpc' = "raised"

\* python mcp_server_wrapper.py (lines 71-72)
Launch ==
    /\ wpc = "idle"
    /\ \E e \in Environments :
        /\ env' = e
        /\ sys_path' = IF e.src_on_path THEN {"src"} ELSE {}
    /\ wpc' = "setup"
    /\ UNCHANGED <<inflight, cause, failed, imported, started, returned, status,
                   notwrappervars>>

\* Lines 19-33: the start-up log lines and os.chdir(script_dir).
Setup ==
    /\ wpc = "setup"
    /\ IF env.setup = Returns
       THEN wpc' = "path" /\ UNCHANGED <<inflight, cause, failed>>
       ELSE Raise(env.setup, "setup")
    /\ UNCHANGED <<env, sys_path, imported, started, returned, status,
                   notwrappervars>>

\* Lines 36-39: src_dir is put on sys.path unless it is there.
AddPath ==
    /\ wpc = "path"
    /\ sys_path' = sys_path \cup {"src"}
    /\ wpc' = "check_src"
    /\ UNCHANGED <<env, inflight, cause, failed, imported, started, returned, status,
                   notwrappervars>>

\* Lines 42-44.
CheckSrc ==
    /\ wpc = "check_src"
    /\ IF env.src_exists
       THEN wpc' = "check_module" /\ UNCHANGED <<inflight, cause, failed>>
       ELSE Raise(SystemExit(1), "check_src")
    /\ UNCHANGED <<env, sys_path, imported, started, returned, status,
                   notwrappervars>>

\* A check that logs the missing module and goes on.
CheckModule_goes_on ==
    /\ wpc = "check_module"
    /\ wpc' = "import"
    /\ UNCHANGED <<inflight, cause, failed>>
    /\ UNCHANGED <<env, sys_path, imported, started, returned, status,
                   notwrappervars>>

\* Lines 47-52.
CheckModule ==
    /\ wpc = "check_module"
    /\ IF env.module_exists
       THEN wpc' = "import" /\ UNCHANGED <<inflight, cause, failed>>
       ELSE Raise(SystemExit(1), "check_module")
    /\ UNCHANGED <<env, sys_path, imported, started, returned, status,
                   notwrappervars>>

\* Lines 55-56: from macos_ui_automation.interfaces.mcp_server import main
\* as server_main.
Import ==
    /\ wpc = "import"
    /\ IF env.importing = Returns
       THEN /\ imported' = TRUE
            /\ wpc' = "server_main"
            /\ UNCHANGED <<inflight, cause, failed>>
       ELSE /\ Raise(env.importing, "import")
            /\ UNCHANGED imported
    /\ UNCHANGED <<env, sys_path, started, returned, status, notwrappervars>>

\* Lines 58-59: server_main()
ServerMain ==
    /\ wpc = "server_main"
    /\ started' = TRUE
    /\ IF env.serving = Returns
       THEN /\ returned' = TRUE
            /\ wpc' = "return"
            /\ UNCHANGED <<inflight, cause, failed>>
       ELSE /\ Raise(env.serving, "server_main")
            /\ UNCHANGED returned
    /\ UNCHANGED <<env, sys_path, imported, status, notwrappervars>>

\* Lines 61-65: except ImportError ... sys.exit(1)
ExceptImportError ==
    /\ wpc = "raised"
    /\ IsImportError(inflight)
    /\ inflight' = SystemExit(1)
    /\ wpc' = "exiting"
    /\ UNCHANGED <<env, sys_path, cause, failed, imported, started, returned,
                   status, notwrappervars>>

\* Lines 66-69: except Exception ... sys.exit(1)
ExceptException ==
    /\ wpc = "raised"
    /\ IsException(inflight)
    /\ ~IsImportError(inflight)
    /\ inflight' = SystemExit(1)
    /\ wpc' = "exiting"
    /\ UNCHANGED <<env, sys_path, cause, failed, imported, started, returned,
                   status, notwrappervars>>

\* No except clause of lines 61-69 matches: the exception leaves main().
Propagate ==
    /\ wpc = "raised"
    /\ ~IsException(inflight)
    /\ wpc' = "exiting"
    /\ UNCHANGED <<env, sys_path, inflight, cause, failed, imported, started, returned,
                   status, notwrappervars>>

\* main() has returned or an exception has left it: the process ends.
Exit ==
    /\ wpc \in {"return", "exiting"}
    /\ status' = ExitStatus(inflight)
    /\ wpc' = "exited"
    /\ UNCHANGED <<env, sys_path, inflight, cause, failed, imported, started, returned,
                   notwrappervars>>

NextWrapper ==
    \/ Launch
    \/ Setup
    \/ AddPath
    \/ CheckSrc
    \/ CheckModule
    \/ Import
    \/ ServerMain
    \/ ExceptImportError
    \/ ExceptException
    \/ Propagate
    \/ Exit

SpecWrapper == Init /\ [][NextWrapper]_vars

----------------------------------------------------------------------------
(* Properties of the singleton triple *)

\* C1: while a triple given to set_bridge_instances(p, w, a) with three
\* bridge instances has been neither reset nor replaced, the slots hold
\* exactly p, w and a, and every accessor call returns the injected instance
\* of its own slot, raises nothing and constructs nothing, whatever the
\* test-mode flag is.
C1_InjectedInstancesReturned ==
    injected # <<>> =>
        /\ Triple = injected
        /\ op \in Accessors =>
            /\ result = <<injected[OwnSlot(op)]>>
            /\ raised = "none"
            /\ built = <<>>

\* C1 witness: with the test-mode flag off, get_workspace_bridge() has just
\* returned an injected fake workspace bridge that sits in a triple whose
\* element-access bridge is a real one.
C1_Witness ==
    /\ injected # <<>>
    /\ ~test_mode
    /\ op = "get_workspace_bridge"
    /\ result = <<injected[2]>>
    /\ IsFake(injected[2])
    /\ IsReal(injected[1])

\* C3: with callers that inject three bridge instances, the three slots are
\* in every reachable state all unset or all set.
C3_NeverPartiallyInitialized == AllUnset(Triple) \/ AllSet(Triple)

\* C3 witness: an accessor has rebuilt the triple after a reset cleared an
\* earlier one, and all three slots are set.
C3_Witness ==
    /\ op \in Accessors
    /\ was = "unset"
    /\ dropped # {}
    /\ built # <<>>
    /\ AllSet(Triple)

\* C7: from a state where all three slots are set, every call other than
\* reset_bridges() and set_bridge_instances() (the accessors, both factory
\* functions, a change of the test-mode flag) leaves the three slots as
\* they are.
C7_SetTripleOnlyChangedByResetOrSet ==
    [][(AllSet(Triple) /\ op' \notin {"reset_bridges", "set_bridge_instances"})
           => Triple' = Triple]_vars

\* C7 witness: create_pyobjc_bridge() was called on a set triple and
\* constructed three new bridges, none of which is in a slot.
C7_Witness ==
    /\ op = "create_pyobjc_bridge"
    /\ was = "set"
    /\ built # <<>>
    /\ AllSet(Triple)
    /\ Members(built) \cap Members(Triple) = {}

\* C2: reset_bridges() leaves all three slots unset; an accessor called on
\* the triple it left unset goes through create_pyobjc_bridge() and, unless
\* that raises, stores one newly constructed triple and returns its own
\* member of it; and no accessor called after the reset (no instance having
\* been injected since) returns, or leaves in a slot, an object a slot held
\* before the reset.
C2_ResetForcesFreshConstruction ==
    /\ op = "reset_bridges" => AllUnset(Triple)
    /\ (op \in Accessors /\ injected = <<>>) =>
        /\ Members(result) \cap dropped = {}
        /\ Members(Triple) \cap dropped = {}
        /\ was = "unset" =>
            \/ raised # "none"
            \/ /\ Len(built) = 3
               /\ Triple = built
               /\ result = <<built[OwnSlot(op)]>>

\* C2 witness: a fake triple was reset and get_application_bridge(), called
\* next with the flag off, constructed and returned a real bridge.
C2_Witness ==
    /\ op = "get_application_bridge"
    /\ injected = <<>>
    /\ was = "unset"
    /\ dropped # {}
    /\ \A o \in dropped : IsFake(o)
    /\ AllReal(built)
    /\ result = <<built[3]>>
    /\ result[1] \notin dropped

\* C4: whenever the try block of create_pyobjc_bridge() ends in ImportError,
\* the call raises nothing and returns three newly constructed fake bridges;
\* an accessor that made the call on an unset triple leaves that fake triple
\* in the slots and returns its own member of it.
C4_ImportErrorFallsBackToFakes ==
    attempt = "ImportError" =>
        /\ raised = "none"
        /\ AllFake(built)
        /\ op = "create_pyobjc_bridge" => result = built
        /\ op \in Accessors =>
            /\ Triple = built
            /\ result = <<built[OwnSlot(op)]>>

\* C4 witness: with the flag off, get_pyobjc_bridge() on an unset triple met
\* the ImportError and the triple is now fake.
C4_Witness ==
    /\ attempt = "ImportError"
    /\ op = "get_pyobjc_bridge"
    /\ was = "unset"
    /\ ~test_mode
    /\ AllFake(Triple)
    /\ raised = "none"

\* C5: create_pyobjc_bridge(force_fake=True) returns three fake bridges in
\* every state of the triple and for either value of the test-mode flag.
C5_ForceFakeReturnsFakes ==
    (op = "create_pyobjc_bridge" /\ args = <<TRUE>>) => AllFake(result)

C8_AnyUnsetRebuildsWholeTriple ==
    [][(op' \in Accessors /\ ~AllSet(Triple) /\ raised' = "none") =>
           /\ AllSet(Triple')
           /\ Len(built') = 3
           /\ Triple' = built'
           /\ Members(Triple') \cap (objects \cup Members(Triple)) = {}
           /\ result' = <<Triple'[OwnSlot(op')]>>
           /\ result'[1] # None]_vars

\* C8 witness: get_workspace_bridge() found the triple partly set, and the
\* slots now hold the triple it constructed.
C8_Witness ==
    /\ op = "get_workspace_bridge"
    /\ was = "partial"
    /\ raised = "none"
    /\ AllSet(Triple)
    /\ Triple = built
    /\ result = <<_workspace_bridge>>

\* C9: an accessor called on an unset triple installs what mode selection
\* gives at that call: with the test-mode flag on, a fake triple without
\* entering the try block; with the flag off and the try block succeeding,
\* a real triple.  Switching the flag changes no slot, and an accessor
\* called while the triple is set returns the held instance of its slot
\* whatever the flag is.
C9_ModeSelectedAtConstruction ==
    [][/\ (op' \in Accessors /\ AllUnset(Triple)) =>
            /\ test_mode => (AllFake(Triple') /\ attempt' = "none" /\ raised' = "none")
            /\ (~test_mode /\ attempt' = "ok") => AllReal(Triple')
       /\ op' = "set_test_mode" => Triple' = Triple
       /\ (op' \in Accessors /\ AllSet(Triple)) =>
            /\ Triple' = Triple
            /\ result' = <<Triple[OwnSlot(op')]>>]_vars

\* C9 witness: a real triple was reset, the flag is on, and the accessor
\* called next installed a fake triple without trying real construction.
C9_Witness ==
    /\ op \in Accessors
    /\ was = "unset"
    /\ test_mode
    /\ dropped # {}
    /\ \A o \in dropped : IsReal(o)
    /\ AllFake(Triple)
    /\ attempt = "none"

\* C10: no accessor call propagates a failure of real construction: every
\* accessor call raises nothing and returns a bridge.
C10_AccessorNeverPropagates ==
    op \in Accessors =>
        /\ raised = "none"
        /\ Len(result) = 1
        /\ result[1] # None

\* C11 as stated: in every state reachable through accessor calls,
\* reset_bridges() and set_bridge_instances() with three bridge instances,
\* the three slots are all unset, all fake or all real.
C11_TripleUnsetFakeOrReal ==
    AllUnset(Triple) \/ AllFake(Triple) \/ AllReal(Triple)

\* C11 amended: unless the triple in the slots is one that
\* set_bridge_instances() was given with fake and real bridges mixed, the
\* three slots are all unset, all fake or all real; every triple the
\* accessors install is of one kind.
C11_OneKindUnlessInjectedMixed ==
    /\ (injected = <<>> \/ AllFake(injected) \/ AllReal(injected)) =>
           (AllUnset(Triple) \/ AllFake(Triple) \/ AllReal(Triple))
    /\ (op \in Accessors /\ built # <<>>) =>
           /\ Triple = built
           /\ AllFake(Triple) \/ AllReal(Triple)

\* C11 witness: a real triple was reset and the accessor called next, with
\* the flag off and meeting an ImportError, installed a triple of three
\* fakes.
C11_Witness ==
    /\ op \in Accessors
    /\ injected = <<>>
    /\ ~test_mode
    /\ attempt = "ImportError"
    /\ dropped # {}
    /\ \A o \in dropped : IsReal(o)
    /\ Triple = built
    /\ AllFake(Triple)

\* C17: an accessor call out of which create_pyobjc_bridge() raises leaves
\* every slot exactly as it was, constructs nothing and returns nothing; the
\* triple it leaves still has an unset slot, and an accessor called next
\* enters create_pyobjc_bridge() again (it tries real construction, or in
\* test mode constructs fakes).
C17_FailedConstructionChangesNothing ==
    [][/\ (op' \in Accessors /\ raised' # "none") =>
            /\ Triple' = Triple
            /\ ~AllSet(Triple')
            /\ objects' = objects
            /\ result' = <<>>
            /\ built' = <<>>
       /\ (op \in Accessors /\ raised # "none" /\ op' \in Accessors) =>
            (attempt' # "none" \/ built' # <<>>)]_vars

\* C17 witness: after a reset, an accessor call on the unset triple raised
\* BridgeUnavailableError and the triple is still unset.
C17_Witness ==
    /\ op \in Accessors
    /\ raised = "BridgeUnavailableError"
    /\ was = "unset"
    /\ dropped # {}
    /\ AllUnset(Triple)
    /\ result = <<>>

----------------------------------------------------------------------------
(* Properties of the module under threads *)

Anomalies ==
    {"handed-out bridge replaced", "read a partly cleared triple", "accessor returned None"}

\* C12: the accessors and reset_bridges() take no lock, and their
\* read-check-initialize sequence goes wrong only by interleaving: as long
\* as no thread has taken a step while another was inside a call, no
\* accessor has returned None, none has read a triple that reset_bridges()
\* had partly cleared, no bridge handed to a caller has been replaced in
\* its slot by another construction, and between calls the triple is all
\* unset or all set.  (The witness shows that interleaved calls do all of
\* this.)
C12_AnomaliesNeedInterleaving ==
    ~raced =>
        /\ seen = {}
        /\ (\A t \in Threads : pc[t] = "idle") => Shape(Triple) # "partial"
        /\ \A t \in Threads :
               (pc[t] = "idle" /\ fn[t] \in Accessors /\ outcome[t].exc = "none") =>
                   outcome[t].val # None

\* C12 witness: two threads have called accessors on an unset triple,
\* create_pyobjc_bridge() has constructed two triples, the bridge handed to
\* one caller has been overwritten in its slot by the other's; and an
\* accessor interleaved with reset_bridges() has read the triple while it
\* was partly cleared and has returned None to its caller.
C12_Witness ==
    /\ seen = Anomalies
    /\ Cardinality(objects) = 6
    /\ \E t \in Threads :
           /\ pc[t] = "idle"
           /\ fn[t] \in Accessors
           /\ outcome[t] = Returned(None)

----------------------------------------------------------------------------
(* Properties of the data model *)

\* The instance in scope was constructed, not refused.
Constructed == mtype # "none" /\ instance.t = mtype

\* The fields of the instance in scope that are None.
AbsentFields == {n \in DOMAIN instance.v : instance.v[n] = PyNone}

\* C13: for each of the five classes and every instance that was
\* constructed, the instance constructed from its model_dump() is equal to
\* it, nested children and submenus and absent optional fields included.
C13_RoundTrip ==
    rebuilt # PyNone => Constructed /\ rebuilt = instance

\* A window with a panel (itself with two children) and a button for
\* children, and no minimized flag, has made the round trip.
C13_Witness ==
    /\ mtype = "WindowState"
    /\ rebuilt # PyNone
    /\ rebuilt = instance
    /\ instance.v["children"] = PyList(<<Panel, Button>>)
    /\ "minimized" \in AbsentFields

\* C14: a UIElement given without role or element_type, or given a value
\* that is not a boolean for a boolean field, is refused with a
\* ValidationError and no instance exists; a string is never taken as True.
\* Size(width=0, height=0) and negative Position coordinates are accepted.
\* (None for an optional boolean field means the field is absent.)
C14_ValidationFailsClosed ==
    /\ mtype = "UIElement" /\ ~({"role", "element_type"} \subseteq DOMAIN kwargs)
          => instance.t = "ValidationError"
    /\ mtype # "none"
          => \A n \in BoolFields(mtype) \cap DOMAIN kwargs :
                kwargs[n].t \notin {"bool", "NoneType"}
                    => instance.t = "ValidationError"
    /\ mtype # "none" /\ ~Constructed
          => instance.t = "ValidationError" /\ dumped = PyNone /\ rebuilt = PyNone
    /\ Constructed
          => \A n \in BoolFields(mtype) : instance.v[n].t \in {"bool", "NoneType"}
    /\ mtype = "Size" /\ kwargs = [width |-> PyInt(0), height |-> PyInt(0)]
          => instance = Model("Size", kwargs)
    /\ mtype = "Position" /\ DOMAIN kwargs = {"x", "y"}
              /\ kwargs["x"].t = "int" /\ kwargs["y"].t = "int"
          => instance = Model("Position", kwargs)

\* A UIElement with role and element_type has been refused for
\* enabled="not_a_boolean".
C14_Witness ==
    /\ mtype = "UIElement"
    /\ {"role", "element_type", "enabled"} \subseteq DOMAIN kwargs
    /\ kwargs["enabled"] = PyStr("not_a_boolean")
    /\ "focused" \notin DOMAIN kwargs
    /\ instance = ValidationError("enabled")

\* data is the projection of val: a mapping with the fields of a model, a
\* sequence as long as a sequence and item by item its projection, and the
\* value itself otherwise.
RECURSIVE Projects(_, _)
Projects(val, data) ==
    IF IsModel(val)
    THEN /\ data.t = "dict"
         /\ DOMAIN data.v = FieldNames(val.t)
         /\ \A n \in DOMAIN data.v : Projects(val.v[n], data.v[n])
    ELSE IF val.t = "list"
    THEN /\ data.t = "list"
         /\ Len(data.v) = Len(val.v)
         /\ \A i \in 1..Len(val.v) : Projects(val.v[i], data.v[i])
    ELSE data = val

\* C15: model_dump() is a structural projection that keeps the order: a
\* model becomes a mapping with the same field names and a sequence of
\* models a sequence of mappings of the same length in the same order, at
\* every depth.
C15_DumpIsOrderedProjection ==
    dumped # PyNone => Projects(instance, dumped)

\* A window whose children are a panel (itself with two children) and a
\* button has been serialized: the panel's mapping comes first and the
\* text field comes first inside it.
C15_Witness ==
    /\ mtype = "WindowState"
    /\ dumped # PyNone
    /\ instance.v["children"] = PyList(<<Panel, Button>>)
    /\ dumped.v["children"].v[1].v["role"] = PyStr("AXGroup")
    /\ dumped.v["children"].v[1].v["children"].v[1].v["role"] = PyStr("AXTextField")
    /\ dumped.v["children"].v[2].v["title"] = PyStr("Submit")

\* n is the integer part of the number given in tenths.
IntegerPart(tenths, n) ==
    IF tenths >= 0
    THEN n >= 0 /\ 10 * n <= tenths /\ tenths < 10 * (n + 1)
    ELSE n <= 0 /\ 10 * n >= tenths /\ tenths > 10 * (n - 1)

\* C16: a Position given fractional coordinates is constructed, and each
\* coordinate is the integer part of what was given: Position(x=10.7,
\* y=20.3) has x = 10 and y = 20.
C16_PositionTruncates ==
    mtype = "Position"
        => /\ (\A n \in {"x", "y"} : n \in DOMAIN kwargs /\ kwargs[n].t \in {"int", "float"})
                => Constructed
           /\ Constructed
                => \A n \in {"x", "y"} :
                      /\ instance.v[n].t = "int"
                      /\ kwargs[n].t = "float"
                            => IntegerPart(kwargs[n].v, instance.v[n].v)
           /\ kwargs = [x |-> PyFloat(107), y |-> PyFloat(203)]
                => instance = Model("Position", [x |-> PyInt(10), y |-> PyInt(20)])

\* Position(x=10.7, y=20.3) has been constructed.
C16_Witness ==
    /\ mtype = "Position"
    /\ kwargs = [x |-> PyFloat(107), y |-> PyFloat(203)]
    /\ Constructed

----------------------------------------------------------------------------
(* Properties of the wrapper script *)

\* Both existence checks passed and the import succeeded.
ChecksAndImportPassed ==
    env.src_exists /\ env.module_exists /\ imported

\* C18 as stated: server_main() is invoked only after both existence checks
\* passed and the import succeeded, and a run that ends on any other path,
\* an exception from server_main included, ends with status 1 and the
\* server not started.
C18_ElseExitOneNotStarted ==
    /\ started => ChecksAndImportPassed
    /\ wpc = "exited" /\ (~ChecksAndImportPassed \/ failed = "server_main")
          => status = 1 /\ ~started

\* C18: server_main() is invoked only after both existence checks passed and
\* the import succeeded; a run that ends without them ends with
\* server_main() never invoked; and a run ends with status 1 when src/ or
\* the module file is missing, or an ImportError or other Exception was
\* raised by the import or by server_main().
C18_ServerOnlyAfterChecksElseExitOne ==
    /\ started => ChecksAndImportPassed
    /\ wpc = "exited" /\ ~ChecksAndImportPassed => ~started
    /\ wpc = "exited" /\ failed \in {"check_src", "check_module"} => status = 1
    /\ wpc = "exited" /\ IsException(cause) => status = 1

\* Runs have ended with status 1 and server_main() not invoked for a missing
\* module file; here one has ended with status 1 after server_main() raised.
C18_Witness ==
    /\ wpc = "exited"
    /\ failed = "server_main"
    /\ cause = Raises("RuntimeError")
    /\ started
    /\ status = 1

====
